---- MODULE Spec2Model ----
(***************************************************************************)
(* mdbook-termlink: a model of the preprocessor run (src/src/lib.rs), the  *)
(* glossary term extractor (src/src/glossary.rs), the path and alias       *)
(* configuration (src/src/config.rs) and the context-tracked linker        *)
(* (src/src/linker.rs).                                                    *)
(*                                                                         *)
(* Strings are sequences of one-character strings.  Option<T> is a         *)
(* sequence of length 0 (None) or 1 (Some).  A chapter's content is the    *)
(* event stream the markdown parser yields for it.                         *)
(***************************************************************************)
EXTENDS Integers, Sequences, FiniteSets, TLC

\* ------------------------------------------------------------------------
\* Characters
\* ------------------------------------------------------------------------

AsciiUpper ==
  <<"A","B","C","D","E","F","G","H","I","J","K","L","M",
    "N","O","P","Q","R","S","T","U","V","W","X","Y","Z">>

AsciiLower ==
  <<"a","b","c","d","e","f","g","h","i","j","k","l","m",
    "n","o","p","q","r","s","t","u","v","w","x","y","z">>

AsciiDigits == {"0","1","2","3","4","5","6","7","8","9"}

\* One non-ASCII letter pair (E with acute accent), two bytes each in UTF-8.
UpperEAcute == "U+00C9"

LowerEAcute == "U+00E9"

IsAsciiUpper(c) == \E i \in 1..Len(AsciiUpper) : AsciiUpper[i] = c

IsAsciiLower(c) == \E i \in 1..Len(AsciiLower) : AsciiLower[i] = c

\* char::is_alphanumeric (Unicode Alphabetic or Numeric)
is_alphanumeric(c) ==
  IsAsciiUpper(c) \/ IsAsciiLower(c) \/ c \in AsciiDigits
    \/ c \in {UpperEAcute, LowerEAcute}

\* char::to_ascii_lowercase: only A..Z change
to_ascii_lowercase(c) ==
  IF IsAsciiUpper(c)
    THEN AsciiLower[CHOOSE i \in 1..Len(AsciiUpper) : AsciiUpper[i] = c]
    ELSE c

\* str::to_lowercase, one character (Unicode lowercase mapping)
to_lowercase_char(c) ==
  IF c = UpperEAcute THEN LowerEAcute ELSE to_ascii_lowercase(c)

\* str::to_lowercase
to_lowercase(s) == [i \in 1..Len(s) |-> to_lowercase_char(s[i])]

\* char::is_whitespace, as str::trim uses it
is_whitespace(c) == c \in {" ", "\n", "\t"}

\* the regex crate's \w (Unicode word character)
IsWordChar(c) == is_alphanumeric(c) \/ c = "_"

\* number of UTF-8 bytes of one character
Utf8Len(c) == IF c \in {UpperEAcute, LowerEAcute} THEN 2 ELSE 1

RECURSIVE ByteLen(_)
\* str::len: the length in bytes
ByteLen(s) == IF s = <<>> THEN 0 ELSE Utf8Len(Head(s)) + ByteLen(Tail(s))

RECURSIVE Concat(_)
\* concatenation of a sequence of strings (format!)
Concat(ss) == IF ss = <<>> THEN <<>> ELSE Head(ss) \o Concat(Tail(ss))

RECURSIVE trim_start(_)
trim_start(s) ==
  IF s # <<>> /\ is_whitespace(Head(s)) THEN trim_start(Tail(s)) ELSE s

RECURSIVE trim_end(_)
trim_end(s) ==
  IF s # <<>> /\ is_whitespace(s[Len(s)])
    THEN trim_end(SubSeq(s, 1, Len(s) - 1)) ELSE s

\* str::trim
trim(s) == trim_end(trim_start(s))

\* ------------------------------------------------------------------------
\* Term model (glossary.rs)
\* ------------------------------------------------------------------------

RECURSIVE anchor_scan_every(_, _, _, _)
\* a plausible slip: every non-alphanumeric character pushes a hyphen
anchor_scan_every(name, i, result, last_was_hyphen) ==
  IF i > Len(name) THEN result
  ELSE IF is_alphanumeric(name[i])
    THEN anchor_scan_every(name, i + 1,
                           Append(result, to_ascii_lowercase(name[i])), FALSE)
  ELSE anchor_scan_every(name, i + 1, Append(result, "-"), TRUE)

RECURSIVE anchor_scan(_, _, _, _)
\* the character loop of generate_anchor
anchor_scan(name, i, result, last_was_hyphen) ==
  IF i > Len(name) THEN result
  ELSE IF is_alphanumeric(name[i])
    THEN anchor_scan(name, i + 1,
                     Append(result, to_ascii_lowercase(name[i])), FALSE)
  ELSE IF ~last_was_hyphen
    THEN anchor_scan(name, i + 1, Append(result, "-"), TRUE)
  ELSE anchor_scan(name, i + 1, result, last_was_hyphen)

generate_anchor(name) ==
  LET result == anchor_scan(name, 1, <<>>, TRUE)
  IN  IF result # <<>> /\ result[Len(result)] = "-"
        THEN SubSeq(result, 1, Len(result) - 1)
        ELSE result

extract_short_name(name) ==
  IF \A i \in 1..Len(name) : name[i] # "("
    THEN <<>>
    ELSE LET paren_idx == CHOOSE i \in 1..Len(name) :
                            /\ name[i] = "("
                            /\ \A j \in 1..(i - 1) : name[j] # "("
             short == trim(SubSeq(name, 1, paren_idx - 1))
         IN  IF short # <<>> /\ ByteLen(short) < ByteLen(name) \div 2
               THEN <<short>>
               ELSE <<>>

\* Term::with_definition (Term::new is the case definition = None)
with_definition(name, definition) ==
  [name       |-> name,
   anchor     |-> generate_anchor(name),
   short_name |-> extract_short_name(name),
   definition |-> definition,
   aliases    |-> <<>>]

Term_new(name) == with_definition(name, <<>>)

with_aliases(term, aliases) == [term EXCEPT !.aliases = aliases]

searchable_forms(term) == <<term.name>> \o term.short_name \o term.aliases

\* ------------------------------------------------------------------------
\* Term matcher (linker.rs, build_term_regex and the regex it builds)
\* ------------------------------------------------------------------------

\* a plausible slip: case_insensitive(true) is never set
build_term_regex_exact(term, case_sensitive) ==
  [forms |-> searchable_forms(term), case_insensitive |-> FALSE]

\* \b(f1|f2|...)\b with the case_insensitive flag; every form is escaped, so
\* it matches itself literally.
build_term_regex(term, case_sensitive) ==
  [forms |-> searchable_forms(term), case_insensitive |-> ~case_sensitive]

\* one pattern character against one text character
CharMatches(p, c, case_insensitive) ==
  IF case_insensitive THEN to_lowercase_char(p) = to_lowercase_char(c)
                      ELSE p = c

\* \b at the gap before text[i] (i in 1..Len+1)
WordBoundary(text, i) ==
  LET before == i > 1 /\ IsWordChar(text[i - 1])
      after  == i <= Len(text) /\ IsWordChar(text[i])
  IN  before # after

\* the literal form matches text[i .. i+Len(form)-1] between two \b
FormMatchesAt(text, i, form, case_insensitive) ==
  /\ i + Len(form) - 1 <= Len(text)
  /\ WordBoundary(text, i)
  /\ WordBoundary(text, i + Len(form))
  /\ \A k \in 1..Len(form) : CharMatches(form[k], text[i + k - 1], case_insensitive)

\* the match of the alternation at position i: the first alternative that
\* matches there (leftmost-first), as the set of its end positions (0 or 1)
MatchEndAt(regex, text, i) ==
  LET hits == {f \in 1..Len(regex.forms) :
                 FormMatchesAt(text, i, regex.forms[f], regex.case_insensitive)}
  IN  IF hits = {} THEN <<>>
      ELSE LET f == CHOOSE g \in hits : \A h \in hits : g <= h
           IN  <<i + Len(regex.forms[f])>>

\* Regex::find from position start on: Some([start, end)) of the leftmost
\* match, or None
regex_find_at(regex, text, start) ==
  LET starts == {i \in start..Len(text) : MatchEndAt(regex, text, i) # <<>>}
  IN  IF starts = {} THEN <<>>
      ELSE LET s == CHOOSE i \in starts : \A j \in starts : i <= j
           IN  <<[start |-> s, end |-> MatchEndAt(regex, text, s)[1]]>>

regex_find(regex, text) == regex_find_at(regex, text, 1)

\* ------------------------------------------------------------------------
\* Link fragments (linker.rs, replace_terms_in_text and html_escape)
\*
\* Every character of the string under rewriting carries a history cell:
\*   o  its index in the original text of the event (0: inserted markup),
\*   n  how many times it was matched and wrapped as the text of a link,
\*   a  the anchor of the first link that wrapped it (<<>>: none).
\* The cells follow the characters through every slice and concatenation
\* and never influence the rewriting.
\* ------------------------------------------------------------------------

MarkupCell == [o |-> 0, n |-> 0, a |-> <<>>]

MarkupCells(s) == [i \in 1..Len(s) |-> MarkupCell]

OriginCells(text) == [i \in 1..Len(text) |-> [o |-> i, n |-> 0, a |-> <<>>]]

WrapCell(cell, anchor) ==
  [o |-> cell.o, n |-> cell.n + 1, a |-> IF cell.n = 0 THEN anchor ELSE cell.a]

RECURSIVE str_replace(_, _, _)
\* str::replace(from: char, to: &str)
str_replace(s, from, to) ==
  IF s = <<>> THEN <<>>
  ELSE (IF Head(s) = from THEN to ELSE <<Head(s)>>) \o str_replace(Tail(s), from, to)

html_escape(text) ==
  str_replace(
    str_replace(
      str_replace(
        str_replace(text, "&", <<"&","a","m","p",";">>),
        "<", <<"&","l","t",";">>),
      ">", <<"&","g","t",";">>),
    "\"", <<"&","q","u","o","t",";">>)

RECURSIVE html_escape_cells(_, _)
\* the cells of html_escape(text): each character's cell, once per character
\* of its escaped form
html_escape_cells(text, cells) ==
  IF text = <<>> THEN <<>>
  ELSE [i \in 1..Len(html_escape(<<Head(text)>>)) |-> Head(cells)]
         \o html_escape_cells(Tail(text), Tail(cells))

\* title_attr: ` title="{}"` of the escaped definition, or empty
title_attr(term) ==
  IF term.definition = <<>> THEN <<>>
  ELSE Concat(<< <<" ","t","i","t","l","e","=","\"">>,
                 html_escape(term.definition[1]),
                 <<"\"">> >>)

\* everything of the fragment before the visible text:
\* <a href="{glossary_path}#{anchor}"{title_attr} class="{css_class}">
link_open(glossary_path, term, config) ==
  Concat(<< <<"<","a"," ","h","r","e","f","=","\"">>,
            glossary_path, <<"#">>, term.anchor, <<"\"">>,
            title_attr(term),
            <<" ","c","l","a","s","s","=","\"">>,
            config.css_class,
            <<"\"",">">> >>)

link_close == <<"<","/","a",">">>

\* format!(r#"<a href="{}#{}"{} class="{}">{}</a>"#, ...)
link_fragment(glossary_path, term, config, matched_text) ==
  Concat(<< link_open(glossary_path, term, config),
            html_escape(matched_text),
            link_close >>)

link_cells(glossary_path, term, config, matched_text, matched_cells) ==
  Concat(<< MarkupCells(link_open(glossary_path, term, config)),
            html_escape_cells(matched_text,
              [i \in 1..Len(matched_cells) |-> WrapCell(matched_cells[i], term.anchor)]),
            MarkupCells(link_close) >>)

\* &text[mat.start()..mat.end()], of the string or of its cells
matched(text, m) == SubSeq(text, m.start, m.end - 1)

\* the link built for the match m of text, with its cells
link_for(text, cells, m, glossary_path, term, config) ==
  [result |-> link_fragment(glossary_path, term, config, matched(text, m)),
   cells  |-> link_cells(glossary_path, term, config, matched(text, m),
                         matched(cells, m))]

\* text[pos..m.start] + link + rest
splice(text, cells, pos, m, link, rest) ==
  [result |-> Concat(<< SubSeq(text, pos, m.start - 1), link.result, rest.result >>),
   cells  |-> Concat(<< SubSeq(cells, pos, m.start - 1), link.cells, rest.cells >>)]

\* a plausible slip: the text after the match is not copied
remainder_dropped(text, cells, pos) == [result |-> <<>>, cells |-> <<>>]

\* &text[pos..], with its cells
remainder(text, cells, pos) ==
  [result |-> SubSeq(text, pos, Len(text)),
   cells  |-> SubSeq(cells, pos, Len(text))]

RECURSIVE replace_all(_, _, _, _, _, _, _)
RECURSIVE replace_matches(_, _, _, _, _, _, _, _)
\* Regex::replace_all from position pos on: every non-overlapping match,
\* left to right, replaced by the fragment built from that match
replace_all(regex, text, cells, pos, glossary_path, term, config) ==
  replace_matches(regex, text, cells, pos, regex_find_at(regex, text, pos),
                  glossary_path, term, config)

\* the step of replace_all on the next match mat (None: the rest is copied)
replace_matches(regex, text, cells, pos, mat, glossary_path, term, config) ==
  IF mat = <<>> THEN remainder(text, cells, pos)
  ELSE splice(text, cells, pos, mat[1],
              link_for(text, cells, mat[1], glossary_path, term, config),
              replace_all(regex, text, cells, mat[1].end,
                          glossary_path, term, config))

\* the state after a term was linked: the new string and the anchor inserted
\* into linked_terms
linked(st, new, term) ==
  [result |-> new.result, cells |-> new.cells,
   linked_terms |-> st.linked_terms \cup {term.anchor}]

\* the body of `if let Some(mat) = regex.find(&result)`
replace_found(st, regex, mat, term, glossary_path, config) ==
  IF mat = <<>> THEN st
  ELSE IF config.link_first_only
    THEN linked(st,
                splice(st.result, st.cells, 1, mat[1],
                       link_for(st.result, st.cells, mat[1],
                                glossary_path, term, config),
                       remainder(st.result, st.cells, mat[1].end)),
                term)
    ELSE linked(st,
                replace_all(regex, st.result, st.cells, 1,
                            glossary_path, term, config),
                term)

\* the regex of the term and its first match in the string
find_term(st, regex, term, glossary_path, config) ==
  replace_found(st, regex, regex_find(regex, st.result), term, glossary_path, config)

\* a plausible slip: linked_terms is not looked at
replace_term_unchecked(st, term, glossary_path, config) ==
  find_term(st, build_term_regex(term, config.case_sensitive),
            term, glossary_path, config)

\* one iteration of the `for term in terms` loop of replace_terms_in_text;
\* st = [result, cells, linked_terms]
replace_term(st, term, glossary_path, config) ==
  IF config.link_first_only /\ term.anchor \in st.linked_terms
    THEN st
    ELSE find_term(st, build_term_regex(term, config.case_sensitive),
                   term, glossary_path, config)

RECURSIVE replace_terms_loop(_, _, _, _)
replace_terms_loop(st, terms, glossary_path, config) ==
  IF terms = <<>> THEN st
  ELSE replace_terms_loop(replace_term(st, Head(terms), glossary_path, config),
                          Tail(terms), glossary_path, config)

\* replace_terms_in_text: the rewritten text (with its cells) and the
\* updated linked_terms
replace_terms_in_text(text, terms, glossary_path, config, linked_terms) ==
  replace_terms_loop([result |-> text, cells |-> OriginCells(text),
                      linked_terms |-> linked_terms],
                     terms, glossary_path, config)

RECURSIVE insert_by_len(_, _)
\* insertion into a list sorted by descending name length, after every
\* element of the same length (the sort is stable)
insert_by_len(sorted, t) ==
  IF sorted = <<>> THEN <<t>>
  ELSE IF ByteLen(Head(sorted).name) >= ByteLen(t.name)
    THEN <<Head(sorted)>> \o insert_by_len(Tail(sorted), t)
    ELSE <<t>> \o sorted

RECURSIVE sort_terms(_)
\* sorted_terms.sort_by_key(|t| Reverse(t.name().len()))
sort_terms(terms) ==
  IF terms = <<>> THEN <<>>
  ELSE insert_by_len(sort_terms(SubSeq(terms, 1, Len(terms) - 1)), terms[Len(terms)])

\* ------------------------------------------------------------------------
\* Parser events (pulldown_cmark::Event, the variants the code distinguishes)
\* ------------------------------------------------------------------------

Start(tag) == [type |-> "Start", tag |-> tag, text |-> <<>>]

End(tag) == [type |-> "End", tag |-> tag, text |-> <<>>]

Text(s) == [type |-> "Text", tag |-> "", text |-> s]

Code(s) == [type |-> "Code", tag |-> "", text |-> s]

Html(s) == [type |-> "Html", tag |-> "", text |-> s]

SoftBreak == [type |-> "SoftBreak", tag |-> "", text |-> <<>>]

\* the tags whose Start pushes a context and whose End pops one
TrackedTags == {"CodeBlock", "Link", "Image", "Heading"}

\* the Context pushed for a tracked tag (enum Context)
ContextOf(tag) == tag

\* ------------------------------------------------------------------------
\* Term extractor (glossary.rs, parse_definition_lists)
\* ------------------------------------------------------------------------

ParserInit ==
  [terms                   |-> <<>>,
   in_definition_list      |-> FALSE,
   in_title                |-> FALSE,
   in_definition           |-> FALSE,
   current_title_text      |-> <<>>,
   current_definition_text |-> <<>>,
   pending_title           |-> <<>>]

\* the definition handed to Term::with_definition
definition_of(st) ==
  IF trim(st.current_definition_text) = <<>>
    THEN <<>>
    ELSE <<trim(st.current_definition_text)>>

\* a plausible slip: the title is pushed without the is_empty test
take_pending_any(st, definition) ==
  IF st.pending_title # <<>>
    THEN [st EXCEPT !.pending_title = <<>>,
                    !.terms = Append(@, with_definition(st.pending_title[1], definition))]
    ELSE [st EXCEPT !.pending_title = <<>>]

\* pending_title.take() followed by the push, when the title is non-empty
take_pending(st, definition) ==
  IF st.pending_title # <<>> /\ st.pending_title[1] # <<>>
    THEN [st EXCEPT !.pending_title = <<>>,
                    !.terms = Append(@, with_definition(st.pending_title[1], definition))]
    ELSE [st EXCEPT !.pending_title = <<>>]

\* a plausible slip: the term is not pushed when its definition block closes,
\* but when the next title starts or the list ends
parse_event_late(st, event) ==
  IF event.type = "Start" /\ event.tag = "DefinitionList" THEN
    [st EXCEPT !.in_definition_list = TRUE]
  ELSE IF event.type = "End" /\ event.tag = "DefinitionList" THEN
    [take_pending(st, definition_of(st)) EXCEPT !.in_definition_list = FALSE]
  ELSE IF event.type = "Start" /\ event.tag = "DefinitionListTitle" THEN
    IF st.in_definition_list
      THEN [take_pending(st, definition_of(st)) EXCEPT
              !.in_title = TRUE,
              !.current_title_text = <<>>,
              !.current_definition_text = <<>>]
      ELSE st
  ELSE IF event.type = "End" /\ event.tag = "DefinitionListTitle" THEN
    IF st.in_title
      THEN [st EXCEPT !.pending_title = <<trim(st.current_title_text)>>,
                      !.in_title = FALSE]
      ELSE st
  ELSE IF event.type = "Start" /\ event.tag = "DefinitionListDefinition" THEN
    IF st.in_definition_list THEN [st EXCEPT !.in_definition = TRUE] ELSE st
  ELSE IF event.type = "End" /\ event.tag = "DefinitionListDefinition" THEN
    IF st.in_definition THEN [st EXCEPT !.in_definition = FALSE] ELSE st
  ELSE IF event.type \in {"Text", "Code"} THEN
    IF st.in_title
      THEN [st EXCEPT !.current_title_text = @ \o event.text]
    ELSE IF st.in_definition
      THEN [st EXCEPT !.current_definition_text = @ \o event.text]
    ELSE st
  ELSE st

\* one iteration of `for event in parser`
parse_event(st, event) ==
  IF event.type = "Start" /\ event.tag = "DefinitionList" THEN
    [st EXCEPT !.in_definition_list = TRUE]
  ELSE IF event.type = "End" /\ event.tag = "DefinitionList" THEN
    [take_pending(st, <<>>) EXCEPT !.in_definition_list = FALSE]
  ELSE IF event.type = "Start" /\ event.tag = "DefinitionListTitle" THEN
    IF st.in_definition_list
      THEN [take_pending(st, definition_of(st)) EXCEPT
              !.in_title = TRUE,
              !.current_title_text = <<>>,
              !.current_definition_text = <<>>]
      ELSE st
  ELSE IF event.type = "End" /\ event.tag = "DefinitionListTitle" THEN
    IF st.in_title
      THEN [st EXCEPT !.pending_title = <<trim(st.current_title_text)>>,
                      !.in_title = FALSE]
      ELSE st
  ELSE IF event.type = "Start" /\ event.tag = "DefinitionListDefinition" THEN
    IF st.in_definition_list THEN [st EXCEPT !.in_definition = TRUE] ELSE st
  ELSE IF event.type = "End" /\ event.tag = "DefinitionListDefinition" THEN
    IF st.in_definition
      THEN IF st.pending_title # <<>> /\ st.pending_title[1] # <<>>
             THEN [take_pending(st, definition_of(st)) EXCEPT
                     !.in_definition = FALSE,
                     !.current_definition_text = <<>>]
             ELSE [st EXCEPT !.in_definition = FALSE, !.pending_title = <<>>]
      ELSE st
  ELSE IF event.type \in {"Text", "Code"} THEN
    IF st.in_title
      THEN [st EXCEPT !.current_title_text = @ \o event.text]
    ELSE IF st.in_definition
      THEN [st EXCEPT !.current_definition_text = @ \o event.text]
    ELSE st
  ELSE st

RECURSIVE parse_loop(_, _)
parse_loop(st, events) ==
  IF events = <<>> THEN st
  ELSE parse_loop(parse_event(st, Head(events)), Tail(events))

parse_definition_lists(content) == parse_loop(ParserInit, content).terms

\* ------------------------------------------------------------------------
\* Paths and configuration (config.rs, glossary.rs, linker.rs)
\* ------------------------------------------------------------------------

RECURSIVE split_path(_, _)
\* Path::components: the non-empty pieces between '/' separators
split_path(path, current) ==
  IF path = <<>> THEN (IF current = <<>> THEN <<>> ELSE <<current>>)
  ELSE IF Head(path) = "/"
    THEN (IF current = <<>> THEN <<>> ELSE <<current>>) \o split_path(Tail(path), <<>>)
    ELSE split_path(Tail(path), Append(current, Head(path)))

components(path) == split_path(path, <<>>)

\* a plausible slip: the suffix is taken on the characters (str::ends_with)
path_ends_with_chars(path, child) ==
  /\ Len(child) <= Len(path)
  /\ SubSeq(path, Len(path) - Len(child) + 1, Len(path)) = child

\* Path::ends_with: child's components are a suffix of path's components
path_ends_with(path, child) ==
  LET pc == components(path)
      cc == components(child)
  IN  /\ Len(cc) <= Len(pc)
      /\ SubSeq(pc, Len(pc) - Len(cc) + 1, Len(pc)) = cc

\* Path == Path compares component by component
path_eq(p, q) == components(p) = components(q)

\* Config::is_glossary_path
is_glossary_path(config, path) ==
  path_eq(path, config.glossary_path) \/ path_ends_with(path, config.glossary_path)

RECURSIVE glob_matches(_, _)
\* glob::Pattern::matches with the default options: `?` is any one
\* character, `*` any sequence of characters (separators included), every
\* other character itself
glob_matches(pattern, str) ==
  IF pattern = <<>> THEN str = <<>>
  ELSE IF Head(pattern) = "*"
    THEN \E k \in 0..Len(str) :
           glob_matches(Tail(pattern), SubSeq(str, k + 1, Len(str)))
  ELSE /\ str # <<>>
       /\ Head(pattern) = "?" \/ Head(pattern) = Head(str)
       /\ glob_matches(Tail(pattern), Tail(str))

\* Config::should_exclude
should_exclude(config, path) ==
  \E i \in 1..Len(config.exclude_pages) : glob_matches(config.exclude_pages[i], path)

\* Config::aliases: the entry of the map under exactly this key
aliases(config, term_name) ==
  LET hits == {i \in 1..Len(config.aliases) : config.aliases[i].term = term_name}
  IN  IF hits = {} THEN <<>> ELSE <<config.aliases[CHOOSE i \in hits : TRUE].aliases>>

\* Path::with_extension on the last component
with_extension(path, ext) ==
  LET slashes == {i \in 1..Len(path) : path[i] = "/"}
      base    == IF slashes = {} THEN 1
                 ELSE 1 + CHOOSE i \in slashes : \A j \in slashes : j <= i
      dots    == {i \in (base + 1)..Len(path) : path[i] = "."}
      stem    == IF dots = {} THEN path
                 ELSE SubSeq(path, 1, (CHOOSE i \in dots : \A j \in dots : j <= i) - 1)
  IN  stem \o <<".">> \o ext

get_glossary_html_path(md_path) == with_extension(md_path, <<"h","t","m","l">>)

RECURSIVE repeat(_, _)
\* str::repeat
repeat(s, n) == IF n = 0 THEN <<>> ELSE s \o repeat(s, n - 1)

\* a plausible slip: the components of the whole path are counted
calculate_relative_path_of_file(from_chapter, to_glossary) ==
  repeat(<<".",".","/">>, Len(components(from_chapter))) \o to_glossary

calculate_relative_path(from_chapter, to_glossary) ==
  LET n     == Len(components(from_chapter))
      depth == IF n = 0 THEN 0 ELSE n - 1
  IN  repeat(<<".",".","/">>, depth) \o to_glossary

\* find_glossary_content: the content of the first chapter whose path is the
\* glossary path, or None
find_glossary_content(book, glossary_path) ==
  LET hits == {i \in 1..Len(book) :
                 /\ book[i].path # <<>>
                 /\ \/ path_eq(book[i].path[1], glossary_path)
                    \/ path_ends_with(book[i].path[1], glossary_path)}
  IN  IF hits = {} THEN <<>>
      ELSE <<book[CHOOSE i \in hits : \A j \in hits : i <= j].content>>

\* extract_terms: Ok(terms) as <<terms>>, Err as <<>>
extract_terms(book, config) ==
  LET glossary_content == find_glossary_content(book, config.glossary_path)
  IN  IF glossary_content = <<>> THEN <<>>
      ELSE <<parse_definition_lists(glossary_content[1])>>

\* a plausible slip: the alias is compared without case folding
alias_conflicts_exact(terms, config) ==
  LET term_names == {terms[i].name : i \in 1..Len(terms)}
      bad(e) == {j \in 1..Len(e.aliases) :
                   /\ e.aliases[j] \in term_names
                   /\ e.aliases[j] # e.term}
  IN  UNION {{<<config.aliases[i].aliases[j], config.aliases[i].term>> :
                j \in bad(config.aliases[i])} : i \in 1..Len(config.aliases)}

\* step 2 of run: the (alias, term_name) pairs the validation loop bails on
alias_conflicts(terms, config) ==
  LET term_names == {to_lowercase(terms[i].name) : i \in 1..Len(terms)}
      bad(e) == {j \in 1..Len(e.aliases) :
                   /\ to_lowercase(e.aliases[j]) \in term_names
                   /\ to_lowercase(e.aliases[j]) # to_lowercase(e.term)}
  IN  UNION {{<<config.aliases[i].aliases[j], config.aliases[i].term>> :
                j \in bad(config.aliases[i])} : i \in 1..Len(config.aliases)}

\* step 3 of run: the configured aliases attached to each term
apply_aliases(terms, config) ==
  [i \in 1..Len(terms) |->
     IF aliases(config, terms[i].name) # <<>>
       THEN with_aliases(terms[i], aliases(config, terms[i].name)[1])
       ELSE terms[i]]

\* ------------------------------------------------------------------------
\* State
\* ------------------------------------------------------------------------

VARIABLES
  config,                 \* the Config of the preprocessor
  book,                   \* the chapters of the book, in iteration order
  input_book,             \* the book as it was handed to run (history)
  phase,                  \* "start", "chapters", "events" or "returned"
  outcome,                \* what run returned, "" before it returns
  error_alias,            \* the <<alias, term>> the alias error names, or <<>>
  terms,                  \* the terms with their aliases (step 3 of run)
  chapter_idx,            \* the chapter for_each_mut is at
  glossary_relative_path, \* relative_glossary of the current chapter
  sorted_terms,           \* add_term_links: the terms, longest name first
  linked_terms,           \* add_term_links: the anchors already linked
  events,                 \* add_term_links: the parsed events of the chapter
  event_idx,              \* process_events: the event the loop is at
  context_stack,          \* process_events: the context stack
  result,                 \* process_events: the events emitted so far
  cells                   \* history cells of the Html events in result

vars ==
  <<config, book, input_book, phase, outcome, error_alias, terms, chapter_idx,
    glossary_relative_path, sorted_terms, linked_terms, events, event_idx,
    context_stack, result, cells>>

run_vars == <<config, input_book>>

link_vars ==
  <<glossary_relative_path, sorted_terms, linked_terms, events, event_idx,
    context_stack, result, cells>>

\* ------------------------------------------------------------------------
\* TermlinkPreprocessor::run, steps 1 to 4 (lib.rs)
\* ------------------------------------------------------------------------

\* extract_terms fails: run returns the error
RunGlossaryNotFound ==
  /\ phase = "start"
  /\ extract_terms(book, config) = <<>>
  /\ phase' = "returned"
  /\ outcome' = "err_glossary_not_found"
  /\ UNCHANGED <<book, error_alias, terms, chapter_idx>>
  /\ UNCHANGED run_vars
  /\ UNCHANGED link_vars

\* a plausible slip: no early return, the chapters are linked with no terms
RunNoTermsLinked ==
  /\ phase = "start"
  /\ extract_terms(book, config) # <<>>
  /\ extract_terms(book, config)[1] = <<>>
  /\ terms' = <<>>
  /\ phase' = "chapters"
  /\ chapter_idx' = 1
  /\ UNCHANGED <<book, outcome, error_alias>>
  /\ UNCHANGED run_vars
  /\ UNCHANGED link_vars

\* terms.is_empty(): run returns the book as it is
RunNoTerms ==
  /\ phase = "start"
  /\ extract_terms(book, config) # <<>>
  /\ extract_terms(book, config)[1] = <<>>
  /\ phase' = "returned"
  /\ outcome' = "ok_no_terms"
  /\ UNCHANGED <<book, error_alias, terms, chapter_idx>>
  /\ UNCHANGED run_vars
  /\ UNCHANGED link_vars

\* the alias validation bails on the first conflict the map iteration meets
RunAliasConflict ==
  /\ phase = "start"
  /\ extract_terms(book, config) # <<>>
  /\ extract_terms(book, config)[1] # <<>>
  /\ \E conflict \in alias_conflicts(extract_terms(book, config)[1], config) :
       error_alias' = conflict
  /\ phase' = "returned"
  /\ outcome' = "err_alias_conflict"
  /\ UNCHANGED <<book, terms, chapter_idx>>
  /\ UNCHANGED run_vars
  /\ UNCHANGED link_vars

\* steps 1 to 4 succeed: for_each_mut starts at the first chapter
RunBeginLinking ==
  /\ phase = "start"
  /\ extract_terms(book, config) # <<>>
  /\ extract_terms(book, config)[1] # <<>>
  /\ alias_conflicts(extract_terms(book, config)[1], config) = {}
  /\ terms' = apply_aliases(extract_terms(book, config)[1], config)
  /\ phase' = "chapters"
  /\ chapter_idx' = 1
  /\ UNCHANGED <<book, outcome, error_alias>>
  /\ UNCHANGED run_vars
  /\ UNCHANGED link_vars

\* ------------------------------------------------------------------------
\* run, step 5: the closure of for_each_mut, one chapter at a time
\* ------------------------------------------------------------------------

AtChapter == phase = "chapters" /\ chapter_idx <= Len(book)

\* a plausible slip: the exclude-pages check is left out
skip_reason_without_exclude(cfg, chapter) ==
  IF chapter.path = <<>> THEN "draft"
  ELSE IF is_glossary_path(cfg, chapter.path[1]) THEN "glossary"
  ELSE ""

\* the early returns of the closure, in their order; "" when the chapter is
\* to be linked
skip_reason(cfg, chapter) ==
  IF chapter.path = <<>> THEN "draft"
  ELSE IF is_glossary_path(cfg, chapter.path[1]) THEN "glossary"
  ELSE IF should_exclude(cfg, chapter.path[1]) THEN "excluded"
  ELSE ""

\* a plausible slip: the set outlives the call
stale_linked_terms == linked_terms

\* let mut linked_terms = HashSet::new()
fresh_linked_terms == {}

NextChapter ==
  /\ chapter_idx' = chapter_idx + 1
  /\ UNCHANGED <<phase, outcome, error_alias, terms>>
  /\ UNCHANGED run_vars

\* a draft chapter has no path
ChapterSkipDraft ==
  /\ AtChapter
  /\ skip_reason(config, book[chapter_idx]) = "draft"
  /\ NextChapter
  /\ UNCHANGED book
  /\ UNCHANGED link_vars

ChapterSkipGlossary ==
  /\ AtChapter
  /\ skip_reason(config, book[chapter_idx]) = "glossary"
  /\ NextChapter
  /\ UNCHANGED book
  /\ UNCHANGED link_vars

ChapterSkipExcluded ==
  /\ AtChapter
  /\ skip_reason(config, book[chapter_idx]) = "excluded"
  /\ NextChapter
  /\ UNCHANGED book
  /\ UNCHANGED link_vars

\* add_term_links up to the call of process_events
ChapterBegin ==
  /\ AtChapter
  /\ skip_reason(config, book[chapter_idx]) = ""
  /\ glossary_relative_path' =
       calculate_relative_path(book[chapter_idx].path[1],
                               get_glossary_html_path(config.glossary_path))
  /\ sorted_terms' = sort_terms(terms)
  /\ linked_terms' = fresh_linked_terms
  /\ events' = book[chapter_idx].content
  /\ event_idx' = 1
  /\ context_stack' = <<"Normal">>
  /\ result' = <<>>
  /\ cells' = <<>>
  /\ phase' = "events"
  /\ UNCHANGED <<book, outcome, error_alias, terms, chapter_idx>>
  /\ UNCHANGED run_vars

\* for_each_mut is through: run returns the book
RunReturn ==
  /\ phase = "chapters"
  /\ chapter_idx > Len(book)
  /\ phase' = "returned"
  /\ outcome' = "ok"
  /\ UNCHANGED <<book, error_alias, terms, chapter_idx>>
  /\ UNCHANGED run_vars
  /\ UNCHANGED link_vars

\* ------------------------------------------------------------------------
\* process_events, one event at a time (linker.rs)
\* ------------------------------------------------------------------------

AtEvent == phase = "events" /\ event_idx <= Len(events)

\* what every arm leaves alone
EventFrame ==
  /\ event_idx' = event_idx + 1
  /\ UNCHANGED <<book, phase, outcome, error_alias, terms, chapter_idx,
                 glossary_relative_path, sorted_terms, events>>
  /\ UNCHANGED run_vars

\* result.push(event)
PassThrough ==
  /\ result' = Append(result, events[event_idx])
  /\ cells' = Append(cells, <<>>)
  /\ UNCHANGED linked_terms

\* a plausible slip: the End arm does not pop
pop_nothing(stack) == stack

\* Vec::pop: nothing happens on an empty vector
pop(stack) == IF stack = <<>> THEN <<>> ELSE SubSeq(stack, 1, Len(stack) - 1)

\* a plausible slip: the bottom of the stack is read instead of the top
current_context_bottom(stack) == IF stack = <<>> THEN "Normal" ELSE stack[1]

\* context_stack.last().copied().unwrap_or(Context::Normal)
current_context(stack) == IF stack = <<>> THEN "Normal" ELSE stack[Len(stack)]

\* the arm Event::Start(Tag::X) of a tracked tag X
EventStartTracked(tag) ==
  /\ AtEvent
  /\ events[event_idx].type = "Start"
  /\ events[event_idx].tag = tag
  /\ context_stack' = Append(context_stack, ContextOf(tag))
  /\ PassThrough
  /\ EventFrame

EventStartCodeBlock == EventStartTracked("CodeBlock")

EventStartLink == EventStartTracked("Link")

EventStartImage == EventStartTracked("Image")

EventStartHeading == EventStartTracked("Heading")

EventEndTracked ==
  /\ AtEvent
  /\ events[event_idx].type = "End"
  /\ events[event_idx].tag \in TrackedTags
  /\ context_stack' = pop(context_stack)
  /\ PassThrough
  /\ EventFrame

EventCode ==
  /\ AtEvent
  /\ events[event_idx].type = "Code"
  /\ PassThrough
  /\ UNCHANGED context_stack
  /\ EventFrame

\* events.push(Event::Html(processed.into())), with the linked_terms the
\* call left behind
push_processed(processed) ==
  /\ result' = Append(result, Html(processed.result))
  /\ cells' = Append(cells, processed.cells)
  /\ linked_terms' = processed.linked_terms

\* Event::Text in Normal context: rewritten and emitted as Event::Html
EventTextNormal ==
  /\ AtEvent
  /\ events[event_idx].type = "Text"
  /\ current_context(context_stack) = "Normal"
  /\ push_processed(replace_terms_in_text(events[event_idx].text, sorted_terms,
                                          glossary_relative_path, config,
                                          linked_terms))
  /\ UNCHANGED context_stack
  /\ EventFrame

\* Event::Text in any other context
EventTextInside ==
  /\ AtEvent
  /\ events[event_idx].type = "Text"
  /\ current_context(context_stack) # "Normal"
  /\ PassThrough
  /\ UNCHANGED context_stack
  /\ EventFrame

\* a plausible slip: the arm `_` does not push the event
EventOtherDropped ==
  /\ AtEvent
  /\ \/ events[event_idx].type \in {"Start", "End"}
        /\ events[event_idx].tag \notin TrackedTags
     \/ events[event_idx].type \notin {"Start", "End", "Code", "Text"}
  /\ UNCHANGED <<result, cells, linked_terms, context_stack>>
  /\ EventFrame

\* the arm `_`
EventOther ==
  /\ AtEvent
  /\ \/ events[event_idx].type \in {"Start", "End"}
        /\ events[event_idx].tag \notin TrackedTags
     \/ events[event_idx].type \notin {"Start", "End", "Code", "Text"}
  /\ PassThrough
  /\ UNCHANGED context_stack
  /\ EventFrame

\* ------------------------------------------------------------------------
\* add_term_links after process_events: cmark and the match in run
\* ------------------------------------------------------------------------

EventsDone == phase = "events" /\ event_idx > Len(events)

\* Ok(new_content): the chapter gets the serialized events
ChapterSerialized ==
  /\ EventsDone
  /\ ~book[chapter_idx].cmark_fails
  /\ book' = [book EXCEPT ![chapter_idx].content = result]
  /\ phase' = "chapters"
  /\ chapter_idx' = chapter_idx + 1
  /\ UNCHANGED <<outcome, error_alias, terms>>
  /\ UNCHANGED run_vars
  /\ UNCHANGED link_vars

\* a plausible slip: the result is unwrapped to its default
content_or_default(chapter) == <<>>

\* the Err arm assigns nothing: chapter.content is what it was
content_on_error(chapter) == chapter.content

\* Err(e): logged, the chapter keeps its content
ChapterSerializeFailed ==
  /\ EventsDone
  /\ book[chapter_idx].cmark_fails
  /\ book' = [book EXCEPT ![chapter_idx].content = content_on_error(book[chapter_idx])]
  /\ phase' = "chapters"
  /\ chapter_idx' = chapter_idx + 1
  /\ UNCHANGED <<outcome, error_alias, terms>>
  /\ UNCHANGED run_vars
  /\ UNCHANGED link_vars

Next ==
  \/ RunGlossaryNotFound
  \/ RunNoTerms
  \/ RunAliasConflict
  \/ RunBeginLinking
  \/ ChapterSkipDraft
  \/ ChapterSkipGlossary
  \/ ChapterSkipExcluded
  \/ ChapterBegin
  \/ RunReturn
  \/ EventStartCodeBlock
  \/ EventStartLink
  \/ EventStartImage
  \/ EventStartHeading
  \/ EventEndTracked
  \/ EventCode
  \/ EventTextNormal
  \/ EventTextInside
  \/ EventOther
  \/ ChapterSerialized
  \/ ChapterSerializeFailed

\* ------------------------------------------------------------------------
\* Inputs: strings, documents, glossaries, configurations, books
\* ------------------------------------------------------------------------

S_API == <<"A","P","I">>

S_api == <<"a","p","i">>

S_APIs == <<"A","P","I","s">>

S_API_Gateway == <<"A","P","I"," ","G","a","t","e","w","a","y">>

S_REST == <<"R","E","S","T">>

S_RESTful == <<"R","E","S","T","f","u","l">>

S_An_API == <<"A","n"," ","A","P","I">>

S_an_API == <<"a","n"," ","A","P","I">>

S_API_API == <<"A","P","I"," ","A","P","I">>

S_REST_API == <<"R","E","S","T"," ","A","P","I">>

S_GW == <<"G","W">>

S_Cplus == <<"C","+">>

S_Cplus_s == <<"C","+","s">>

S_Cplus_is == <<"C","+"," ","i","s">>

S_restful == <<"r","e","s","t","f","u","l">>

P_glossary == <<"r","/","g",".","m","d">>

P_glossary_nested == <<"s","/","r","/","g",".","m","d">>

P_glossary_short == <<"g",".","m","d">>

P_glossary_other_dir == <<"x","r","/","g",".","m","d">>

P_chapter == <<"a",".","m","d">>

P_chapter_b == <<"b",".","m","d">>

P_chapter_c == <<"c",".","m","d">>

P_chapter_nested == <<"d","/","a",".","m","d">>

P_chapter_deep == <<"e","/","f","/","a",".","m","d">>

G_nested_dir == <<"d","/","*">>

CssClass == <<"g","t">>

Paragraph(inner) == <<Start("Paragraph")>> \o inner \o <<End("Paragraph")>>

Element(tag, inner) == <<Start(tag)>> \o inner \o <<End(tag)>>

\* a paragraph whose text spans a term's name and a shorter term inside it
DocOverlap == Paragraph(<<Text(S_API_Gateway)>>)

\* three occurrences of one term over two text events
DocRepeated == Paragraph(<<Text(S_an_API), SoftBreak, Text(S_API_API)>>)

\* two terms, the definition of the first naming the second
DocTwoTerms == Paragraph(<<Text(S_REST_API)>>)

\* other casing, and a longer word that starts with a term
DocCasing == Paragraph(<<Text(S_APIs), SoftBreak, Text(S_api)>>)

\* every tracked construct, nested, with eligible text between them
DocNested ==
  Concat(<<
    Element("Heading",
      <<Text(S_API)>> \o Element("Link", Element("Emphasis", <<Text(S_API)>>))),
    Paragraph(
      Concat(<< <<Text(S_an_API), Code(S_API)>>,
                Element("Link", <<Text(S_REST)>> \o Element("Image", <<Text(S_API)>>)),
                <<Text(S_REST_API)>> >>)),
    Element("CodeBlock", <<Text(S_API)>>),
    Paragraph(Element("Image", <<Text(S_API)>>) \o <<Text(S_API)>>) >>)

\* texts that only aliases match, one of them in another casing
DocAlias == Paragraph(<<Text(S_GW), SoftBreak, Text(S_restful)>>)

\* a name that ends in a symbol, before a letter and before a space
DocSymbol == Paragraph(<<Text(S_Cplus_s), SoftBreak, Text(S_Cplus_is)>>)

Docs ==
  {DocOverlap, DocRepeated, DocTwoTerms, DocCasing, DocNested, DocAlias, DocSymbol}

RECURSIVE GlossaryItems(_)
\* the events of the definition-list items for <<title, definition>> pairs
GlossaryItems(entries) ==
  IF entries = <<>> THEN <<>>
  ELSE Concat(<<
         Element("DefinitionListTitle", <<Text(Head(entries)[1])>>),
         IF Head(entries)[2] = <<>> THEN <<>>
         ELSE Element("DefinitionListDefinition", <<Text(Head(entries)[2][1])>>),
         GlossaryItems(Tail(entries)) >>)

GlossaryDoc(entries) ==
  Element("Heading", <<Text(S_API)>>)
    \o (IF entries = <<>> THEN Paragraph(<<Text(S_API)>>)
        ELSE Element("DefinitionList", GlossaryItems(entries)))

GlossaryOverlap == GlossaryDoc(<< <<S_API_Gateway, <<>> >>, <<S_API, <<>> >> >>)

GlossaryTwoTerms == GlossaryDoc(<< <<S_REST, <<S_An_API>> >>, <<S_API, <<>> >> >>)

GlossarySameAnchor == GlossaryDoc(<< <<S_API, <<>> >>, <<S_api, <<>> >> >>)

GlossarySymbol == GlossaryDoc(<< <<S_Cplus, <<>> >>, <<S_API, <<>> >> >>)

GlossaryEmpty == GlossaryDoc(<<>>)

Chapter(path, content, cmark_fails) ==
  [path |-> path, content |-> content, cmark_fails |-> cmark_fails]

NoAliases == <<>>

AliasGateway == << [term |-> S_API_Gateway, aliases |-> <<S_GW>>] >>

AliasRESTful == << [term |-> S_REST, aliases |-> <<S_RESTful>>] >>

\* an alias that is another term's name in lower case
AliasConflict == << [term |-> S_REST, aliases |-> <<S_RESTful, S_api>>] >>

\* an alias that is the lower-case form of its own term's name
AliasOwnName == << [term |-> S_API, aliases |-> <<S_api>>] >>

MakeConfig(link_first_only, case_sensitive, exclude_pages, alias_map) ==
  [glossary_path   |-> P_glossary,
   link_first_only |-> link_first_only,
   css_class       |-> CssClass,
   case_sensitive  |-> case_sensitive,
   exclude_pages   |-> exclude_pages,
   aliases         |-> alias_map]

\* the longest book of BookScenarios
MaxChapters == 3

\* text rewriting: one glossary, one chapter, every matching configuration
LinkScenarios ==
  {[config |-> MakeConfig(lfo, cs, <<>>, al),
    book   |-> <<Chapter(<<P_glossary>>, gl, FALSE), Chapter(<<P_chapter>>, doc, FALSE)>>] :
     lfo \in BOOLEAN, cs \in BOOLEAN,
     al \in {NoAliases, AliasRESTful, AliasOwnName, AliasGateway},
     gl \in {GlossaryOverlap, GlossaryTwoTerms, GlossarySameAnchor, GlossarySymbol},
     doc \in Docs}

BookChapters ==
  {Chapter(<<P_glossary>>, GlossaryTwoTerms, FALSE),
   Chapter(<<P_chapter>>, DocTwoTerms, FALSE),
   Chapter(<<P_chapter_b>>, DocTwoTerms, FALSE),
   Chapter(<<P_chapter_nested>>, DocTwoTerms, FALSE),
   Chapter(<<>>, <<>>, FALSE)}

\* the run over a book: every order of up to MaxChapters chapters
BookScenarios ==
  {[config |-> MakeConfig(lfo, FALSE, ex, NoAliases), book |-> b] :
     lfo \in BOOLEAN, ex \in {<<>>, <<G_nested_dir>>},
     b \in UNION {[1..n -> BookChapters] : n \in 0..MaxChapters}}

\* where the glossary is, what it holds and which aliases are configured
GlossaryScenarios ==
  {[config |-> MakeConfig(TRUE, FALSE, ex, al),
    book   |-> <<Chapter(<<P_chapter>>, DocTwoTerms, FALSE),
                 Chapter(<<gp>>, gl, FALSE),
                 Chapter(<<P_chapter_nested>>, DocNested, FALSE)>>] :
     ex \in {<<>>, <<G_nested_dir>>},
     al \in {NoAliases, AliasRESTful, AliasConflict, AliasOwnName},
     gp \in {P_glossary, P_glossary_nested, P_glossary_short, P_glossary_other_dir},
     gl \in {GlossaryTwoTerms, GlossarySameAnchor, GlossaryEmpty}}

FailureChapters ==
  {Chapter(<<P_chapter>>, DocTwoTerms, FALSE),
   Chapter(<<P_chapter_b>>, DocRepeated, FALSE),
   Chapter(<<P_chapter_c>>, DocNested, TRUE)}

\* a chapter whose serialization fails, in every place among two others
FailureScenarios ==
  {[config |-> MakeConfig(lfo, FALSE, <<>>, NoAliases),
    book   |-> <<Chapter(<<P_glossary>>, GlossaryTwoTerms, FALSE)>> \o b] :
     lfo \in BOOLEAN,
     b \in {f \in [1..3 -> FailureChapters] : \A i, j \in 1..3 : f[i] = f[j] => i = j}}

\* chapters at the root, one and two directories deep
DepthScenarios ==
  {[config |-> MakeConfig(lfo, FALSE, <<>>, NoAliases),
    book   |-> <<Chapter(<<P_glossary>>, GlossaryOverlap, FALSE),
                 Chapter(<<P_chapter>>, DocOverlap, FALSE),
                 Chapter(<<P_chapter_nested>>, DocOverlap, FALSE),
                 Chapter(<<P_chapter_deep>>, DocOverlap, FALSE)>>] :
     lfo \in BOOLEAN}

S_blank == <<" ">>

S_REST_padded == <<" ","R","E","S","T"," ">>

\* one title and the definition blocks that follow it
Item(title, definitions) ==
  Element("DefinitionListTitle", <<Text(title)>>)
    \o Concat([i \in 1..Len(definitions) |->
                 Element("DefinitionListDefinition", <<Text(definitions[i])>>)])

\* a title with a name, with a name to trim, without one; followed by no
\* definition, one, an empty one, two
Items ==
  {Item(title, definitions) :
     title \in {S_API, S_REST_padded, S_blank},
     definitions \in {<<>>, <<S_An_API>>, <<S_blank>>, <<S_An_API, S_API>>}}

\* the longest definition list of ExtractScenarios
MaxItems == 2

\* a definition list inside the definition of the first of two items
GlossaryNestedList ==
  Element("DefinitionList",
    Concat(<< Element("DefinitionListTitle", <<Text(S_REST)>>),
              Element("DefinitionListDefinition",
                Paragraph(<<Text(S_An_API)>>)
                  \o Element("DefinitionList", Item(S_API, <<S_an_API>>))),
              Item(S_GW, <<S_API_Gateway>>) >>))

\* a glossary of every definition list of up to MaxItems items, and the
\* nested one
ExtractScenarios ==
  {[config |-> MakeConfig(TRUE, FALSE, <<>>, NoAliases),
    book   |-> <<Chapter(<<P_glossary>>, gl, FALSE)>>] :
     gl \in {Element("DefinitionList", Concat(items)) :
               items \in UNION {[1..n -> Items] : n \in 1..MaxItems}}
             \cup {GlossaryNestedList}}

\* the characters of the glossary titles of NameScenarios
NameChars == {"A", "b", " ", "-", "(", UpperEAcute}

\* the longest title of NameScenarios
MaxNameLen == 4

Names == UNION {[1..n -> NameChars] : n \in 0..MaxNameLen}

\* a glossary of one entry, for every title
NameScenarios ==
  {[config |-> MakeConfig(TRUE, FALSE, <<>>, NoAliases),
    book   |-> <<Chapter(<<P_glossary>>, GlossaryDoc(<< <<name, <<>> >> >>), FALSE)>>] :
     name \in Names}

S_API_long == <<"A","P","I"," ","(","a"," ","p"," ","i",")">>

\* an alias that is the first word of its term's name
AliasFirstWord == << [term |-> S_API_Gateway, aliases |-> <<S_API>>] >>

\* a name with a short name, beside a name without one
GlossaryShortName == GlossaryDoc(<< <<S_API_long, <<>> >>, <<S_REST, <<>> >> >>)

GlossaryGateway == GlossaryDoc(<< <<S_API_Gateway, <<>> >>, <<S_REST, <<>> >> >>)

\* full names, and a form alone after them
DocForms ==
  Paragraph(<<Text(S_API_Gateway), SoftBreak, Text(S_API_long), SoftBreak,
              Text(S_an_API)>>)

\* a full name first
DocFullName == Paragraph(<<Text(S_API_long), SoftBreak, Text(S_API)>>)

S_br == <<"<","b","r",">">>

\* every kind of event: tags tracked and not, a break, raw HTML, inline code,
\* text inside and outside the tracked constructs
DocInline ==
  Element("Heading", <<Text(S_API)>>)
    \o Paragraph(Concat(<< <<Text(S_API), SoftBreak, Html(S_br), Code(S_API)>>,
                           Element("Link", Element("Emphasis", <<Text(S_API)>>)),
                           <<Text(S_REST)>> >>))

\* terms with several surface forms, the shorter ones opening the name
FormScenarios ==
  {[config |-> MakeConfig(lfo, cs, <<>>, ga[2]),
    book   |-> <<Chapter(<<P_glossary>>, ga[1], FALSE), Chapter(<<P_chapter>>, doc, FALSE)>>] :
     lfo \in BOOLEAN, cs \in BOOLEAN,
     ga \in {<<GlossaryShortName, NoAliases>>, <<GlossaryGateway, AliasFirstWord>>},
     doc \in {DocForms, DocFullName, DocInline}}

\* the book and the configuration run is handed: one of a family of scenarios
Handed(scenarios) ==
  \E sc \in scenarios :
    /\ config = sc.config
    /\ book = sc.book
    /\ input_book = sc.book

Init ==
  /\ \/ Handed(LinkScenarios)
     \/ Handed(BookScenarios)
     \/ Handed(GlossaryScenarios)
     \/ Handed(FailureScenarios)
     \/ Handed(NameScenarios)
     \/ Handed(DepthScenarios)
     \/ Handed(ExtractScenarios)
     \/ Handed(FormScenarios)
  /\ phase = "start"
  /\ outcome = ""
  /\ error_alias = <<>>
  /\ terms = <<>>
  /\ chapter_idx = 0
  /\ glossary_relative_path = <<>>
  /\ sorted_terms = <<>>
  /\ linked_terms = {}
  /\ events = <<>>
  /\ event_idx = 0
  /\ context_stack = <<>>
  /\ result = <<>>
  /\ cells = <<>>

Spec == Init /\ [][Next]_vars

\* ------------------------------------------------------------------------
\* Vocabulary of the properties
\* ------------------------------------------------------------------------

\* the number of tracked constructs open before event i of a stream
OpenTracked(evs, i) ==
  Cardinality({j \in 1..(i - 1) : evs[j].type = "Start" /\ evs[j].tag \in TrackedTags})
    - Cardinality({j \in 1..(i - 1) : evs[j].type = "End" /\ evs[j].tag \in TrackedTags})

\* event i is inline code, or text inside a code block, link, image or heading
Protected(evs, i) ==
  \/ evs[i].type = "Code"
  \/ evs[i].type = "Text" /\ OpenTracked(evs, i) > 0

\* event i is text outside every tracked construct
Eligible(evs, i) == evs[i].type = "Text" /\ OpenTracked(evs, i) = 0

RECURSIVE MatchesFrom(_, _, _)
\* the non-overlapping matches of a matcher in a text, left to right
MatchesFrom(regex, text, pos) ==
  LET mat == regex_find_at(regex, text, pos)
  IN  IF mat = <<>> THEN {}
      ELSE {mat[1]} \cup MatchesFrom(regex, text, mat[1].end)

\* the occurrences of a term's surface forms in the eligible text of the
\* current chapter: [e: the event, start, end)
Occurrences(t) ==
  UNION {{[e |-> e, start |-> m.start, end |-> m.end] :
            m \in MatchesFrom(build_term_regex(t, config.case_sensitive),
                              events[e].text, 1)} :
         e \in {i \in 1..Len(events) : Eligible(events, i)}}

Overlap(x, y) == x.e = y.e /\ x.start < y.end /\ y.start < x.end

TermSet == {sorted_terms[i] : i \in 1..Len(sorted_terms)}

\* the occurrences of t that share no character with an occurrence of
\* another term
FreeOccurrences(t) ==
  {x \in Occurrences(t) :
     \A u \in TermSet \ {t} : \A y \in Occurrences(u) : ~Overlap(x, y)}

\* the occurrences of the full name of t alone
MatchesInName(t) ==
  UNION {{[e |-> e, start |-> m.start, end |-> m.end] :
            m \in MatchesFrom([forms |-> <<t.name>>,
                               case_insensitive |-> ~config.case_sensitive],
                              events[e].text, 1)} :
         e \in {i \in 1..Len(events) : Eligible(events, i)}}

Before(x, y) == x.e < y.e \/ (x.e = y.e /\ x.start < y.start)

\* the characters of the occurrence are in the output as they were, in no link
Literal(x) ==
  \A k \in 1..Len(cells[x.e]) :
    cells[x.e][k].o \in x.start..(x.end - 1) => cells[x.e][k].n = 0

\* the characters of the occurrence were wrapped as the text of a link to
\* the anchor
WrappedBy(x, anchor) ==
  \A k \in 1..Len(cells[x.e]) :
    cells[x.e][k].o \in x.start..(x.end - 1) => cells[x.e][k].a = anchor

\* the output holds, whole and unbroken, the link fragment of t around
\* exactly the occurrence
IsLink(x, t) ==
  LET open == link_open(glossary_relative_path, t, config)
      frag == link_fragment(glossary_relative_path, t, config,
                            SubSeq(events[x.e].text, x.start, x.end - 1))
      out  == result[x.e].text
  IN  \E k \in 1..Len(out) :
        /\ k + Len(frag) - 1 <= Len(out)
        /\ SubSeq(out, k, k + Len(frag) - 1) = frag
        /\ cells[x.e][k + Len(open)].o = x.start

\* ------------------------------------------------------------------------
\* Properties
\* ------------------------------------------------------------------------

\* C1: text inside a code block, an inline code span, a link, an image or a
\* heading, at any nesting depth, is emitted by process_events exactly as it
\* came in, and is still so in the chapter after add_term_links.
C1_ProtectedTextKept ==
  /\ phase = "events" =>
       \A i \in 1..Len(result) : Protected(events, i) => result[i] = events[i]
  /\ \A c \in 1..Len(book) :
       \A i \in 1..Len(input_book[c].content) :
         Protected(input_book[c].content, i) =>
           /\ i <= Len(book[c].content)
           /\ book[c].content[i] = input_book[c].content[i]

\* C1 witness: a chapter is through process_events in which a term was
\* linked and a text two constructs deep, naming a term, was met.
C1_Witness ==
  /\ EventsDone
  /\ linked_terms # {}
  /\ \E i \in 1..Len(events) :
       /\ events[i].type = "Text"
       /\ OpenTracked(events, i) >= 2
       /\ \E t \in TermSet :
            regex_find(build_term_regex(t, config.case_sensitive), events[i].text) # <<>>

\* C2 (as claimed): with link_first_only, of the occurrences of a term in the
\* eligible text exactly one is a link to the term and the others are literal.
C2_ExactlyOneLinked ==
  (EventsDone /\ config.link_first_only) =>
    \A t \in TermSet :
      FreeOccurrences(t) # {} =>
        \E x \in FreeOccurrences(t) :
          /\ IsLink(x, t)
          /\ \A y \in FreeOccurrences(t) \ {x} : Literal(y)

\* C3 (as claimed): no term is matched inside an inserted link fragment:
\* no character of inserted markup is ever part of a match, and no character
\* of the text is wrapped by two links.
C3_NoMatchInsideFragment ==
  \A e \in 1..Len(cells) : \A k \in 1..Len(cells[e]) :
    /\ cells[e][k].o = 0 => cells[e][k].n = 0
    /\ cells[e][k].n <= 1

\* C4 (as claimed): where the eligible text holds the full name of a term L
\* (its first occurrence under link_first_only) and a form of another term
\* occurs inside it, the occurrence is one unbroken link to L.
C4_LongerNameWins ==
  EventsDone =>
    \A l \in TermSet :
      \A x \in MatchesInName(l) :
        (/\ \E s \in TermSet \ {l} : \E y \in Occurrences(s) :
               /\ y.e = x.e /\ x.start <= y.start /\ y.end <= x.end
               /\ y.end - y.start < x.end - x.start
         /\ config.link_first_only =>
              \A z \in Occurrences(l) : z = x \/ Before(x, z))
        => /\ IsLink(x, l)
           /\ \A k \in 1..Len(cells[x.e]) :
                cells[x.e][k].o \in x.start..(x.end - 1) => cells[x.e][k].n = 1

\* C5 (as claimed): with link_first_only the occurrence that becomes the
\* link is the first one in document order, and no later one is linked.
C5_FirstOccurrenceLinked ==
  (EventsDone /\ config.link_first_only) =>
    \A t \in TermSet :
      \A x \in FreeOccurrences(t) :
        IF \A y \in FreeOccurrences(t) : y = x \/ Before(x, y)
          THEN WrappedBy(x, t.anchor)
          ELSE Literal(x)

\* C6 (as claimed): without link_first_only every occurrence of every term
\* is a link to that term.
C6_AllOccurrencesLinked ==
  (EventsDone /\ ~config.link_first_only) =>
    \A t \in TermSet : \A x \in FreeOccurrences(t) : IsLink(x, t)

\* the chapters for_each_mut is through with
Visited(c) == c \in 1..Len(book) /\ chapter_idx > c

\* the chapters add_term_links rewrites
Linkable(c) ==
  /\ input_book[c].path # <<>>
  /\ ~is_glossary_path(config, input_book[c].path[1])
  /\ ~should_exclude(config, input_book[c].path[1])
  /\ ~input_book[c].cmark_fails

Depth(c) == Len(components(input_book[c].path[1]))

\* C7: every call of add_term_links starts with no anchor linked, and two
\* chapters with the same content at the same directory depth come out the
\* same, wherever they stand in the book.
C7_LinkedSetPerDocument ==
  /\ (phase = "events" /\ event_idx = 1) => linked_terms = {}
  /\ \A c, d \in 1..Len(book) :
       (/\ Visited(c) /\ Visited(d) /\ Linkable(c) /\ Linkable(d)
        /\ input_book[c].content = input_book[d].content
        /\ Depth(c) = Depth(d))
       => book[c].content = book[d].content

\* C7 witness: under link_first_only, run has returned a book in which two
\* chapters of the same content were both rewritten.
C7_Witness ==
  /\ phase = "returned" /\ outcome = "ok" /\ config.link_first_only
  /\ \E c, d \in 1..Len(book) :
       /\ c < d /\ Linkable(c) /\ Linkable(d)
       /\ input_book[c].content = input_book[d].content
       /\ Depth(c) = Depth(d)
       /\ book[c].content # input_book[c].content
       /\ book[d].content # input_book[d].content

\* C8: the glossary chapter and every chapter an exclude-pages glob matches
\* keep their content, at every point of run.
C8_SkippedChaptersKept ==
  \A c \in 1..Len(book) :
    (/\ input_book[c].path # <<>>
     /\ \/ is_glossary_path(config, input_book[c].path[1])
        \/ should_exclude(config, input_book[c].path[1]))
    => book[c].content = input_book[c].content

\* C8 witness: run has returned; an excluded chapter kept the very content
\* that was rewritten in another chapter, and so did the glossary chapter.
C8_Witness ==
  /\ phase = "returned" /\ outcome = "ok"
  /\ \E c, d, g \in 1..Len(book) :
       /\ input_book[c].path # <<>>
       /\ should_exclude(config, input_book[c].path[1])
       /\ ~is_glossary_path(config, input_book[c].path[1])
       /\ Linkable(d)
       /\ input_book[c].content = input_book[d].content
       /\ book[d].content # input_book[d].content
       /\ input_book[g].path # <<>>
       /\ is_glossary_path(config, input_book[g].path[1])

\* the terms of the glossary of the book handed to run
GlossaryTerms ==
  IF extract_terms(input_book, config) = <<>> THEN {}
  ELSE {extract_terms(input_book, config)[1][i] :
          i \in 1..Len(extract_terms(input_book, config)[1])}

\* the configured <<alias, term name>> pairs
ConfiguredAliases ==
  UNION {{<<config.aliases[i].aliases[j], config.aliases[i].term>> :
            j \in 1..Len(config.aliases[i].aliases)} :
         i \in 1..Len(config.aliases)}

ConflictingAliases ==
  {p \in ConfiguredAliases :
     /\ \E t \in GlossaryTerms : to_lowercase(p[1]) = to_lowercase(t.name)
     /\ to_lowercase(p[1]) # to_lowercase(p[2])}

ComponentSuffix(path, child) ==
  \E k \in 0..Len(components(path)) :
    SubSeq(components(path), k + 1, Len(components(path))) = components(child)

GlossaryPresent ==
  \E c \in 1..Len(input_book) :
    /\ input_book[c].path # <<>>
    /\ ComponentSuffix(input_book[c].path[1], config.glossary_path)

\* C10: when no chapter's path has the components of the glossary path as
\* its last components, run links nothing and returns the glossary-not-found
\* error; when one has, it does not return that error.
C10_GlossaryNotFound ==
  /\ ~GlossaryPresent =>
       /\ book = input_book
       /\ phase \in {"start", "returned"}
       /\ phase = "returned" => outcome = "err_glossary_not_found"
  /\ GlossaryPresent => outcome # "err_glossary_not_found"

\* C10 witness: run has failed on a book whose only glossary-like chapter
\* has a path that ends with the glossary path's characters, but not with
\* its components.
C10_Witness ==
  /\ phase = "returned"
  /\ outcome = "err_glossary_not_found"
  /\ \E c \in 1..Len(book) :
       /\ book[c].path # <<>>
       /\ path_ends_with_chars(book[c].path[1], config.glossary_path)

\* the chapters whose serialization fails in add_term_links
Failing(c) ==
  /\ input_book[c].path # <<>>
  /\ ~is_glossary_path(config, input_book[c].path[1])
  /\ ~should_exclude(config, input_book[c].path[1])
  /\ input_book[c].cmark_fails

\* the chapter holds the events it had, every eligible text replaced by an
\* Html event
Rewritten(c) ==
  /\ Len(book[c].content) = Len(input_book[c].content)
  /\ \A i \in 1..Len(input_book[c].content) :
       IF Eligible(input_book[c].content, i)
         THEN book[c].content[i].type = "Html"
         ELSE book[c].content[i] = input_book[c].content[i]

\* C11: a chapter whose serialization fails keeps its content at every point
\* of run; once for_each_mut is past such a chapter run does not end in an
\* error, and when run has returned every other chapter that is not skipped,
\* before and after the failing one, is rewritten.
C11_FailureIsolated ==
  /\ \A c \in 1..Len(book) :
       Failing(c) => book[c].content = input_book[c].content
  /\ (\E c \in 1..Len(book) : Failing(c) /\ Visited(c)) =>
       /\ outcome \in {"", "ok"}
       /\ \A d \in 1..Len(book) : (Visited(d) /\ Linkable(d)) => Rewritten(d)
       /\ phase = "returned" =>
            /\ outcome = "ok"
            /\ \A d \in 1..Len(book) : Linkable(d) => Rewritten(d)

\* C11 witness: run has returned a book in which a chapter naming terms
\* failed to serialize, between two chapters that were rewritten.
C11_Witness ==
  /\ phase = "returned" /\ outcome = "ok"
  /\ \E b, c, d \in 1..Len(book) :
       /\ b < c /\ c < d
       /\ Failing(c) /\ Linkable(b) /\ Linkable(d)
       /\ \E i \in 1..Len(input_book[c].content) : Eligible(input_book[c].content, i)
       /\ book[b].content # input_book[b].content
       /\ book[d].content # input_book[d].content

\* the terms run holds after steps 1 to 3
Terms == {terms[i] : i \in 1..Len(terms)}

\* the positions of the alphanumeric characters of a string
AlnumAt(s) == {i \in 1..Len(s) : is_alphanumeric(s[i])}

\* p is the Rank-th position of S
Rank(S, p) == Cardinality({q \in S : q <= p})

\* i and j are alphanumeric in s, with one or more characters between them,
\* none of them alphanumeric
RunBetween(s, i, j) ==
  /\ i \in AlnumAt(s) /\ j \in AlnumAt(s)
  /\ i + 1 < j
  /\ \A k \in (i + 1)..(j - 1) : ~is_alphanumeric(s[k])

\* C12: when run has built its terms, the anchor of every term (the anchor
\* generate_anchor gave for its name) is a fixed point of generate_anchor, and
\* where the name has a run of one or more non-alphanumeric characters
\* between two alphanumeric ones, the anchor has exactly one hyphen between
\* the two characters that stand for them.
C12_AnchorIdempotent ==
  (phase = "chapters" /\ chapter_idx = 1) =>
    \A t \in Terms :
      /\ generate_anchor(t.anchor) = t.anchor
      /\ \A i, j \in 1..Len(t.name) :
           RunBetween(t.name, i, j) =>
             \E k \in 1..(Len(t.anchor) - 2) :
               /\ is_alphanumeric(t.anchor[k])
               /\ Rank(AlnumAt(t.anchor), k) = Rank(AlnumAt(t.name), i)
               /\ t.anchor[k + 1] = "-"
               /\ is_alphanumeric(t.anchor[k + 2])

\* C12 witness: run holds a term whose name has a run of two non-alphanumeric
\* characters between two alphanumeric ones.
C12_Witness ==
  /\ phase = "chapters" /\ chapter_idx = 1
  /\ \E t \in Terms : \E i, j \in 1..Len(t.name) :
       RunBetween(t.name, i, j) /\ i + 2 < j

IsUpper(c) == IsAsciiUpper(c) \/ c = UpperEAcute

\* C13 (as claimed): the anchor of every term is the alphanumeric characters
\* of its name, in order, each in its lowercase form, with hyphens between
\* them: no uppercase character, no hyphen first or last, no two hyphens
\* side by side.
C13_AnchorLowercase ==
  \A t \in Terms :
    /\ Cardinality(AlnumAt(t.anchor)) = Cardinality(AlnumAt(t.name))
    /\ \A i \in AlnumAt(t.name) : \E k \in AlnumAt(t.anchor) :
         /\ Rank(AlnumAt(t.anchor), k) = Rank(AlnumAt(t.name), i)
         /\ t.anchor[k] = to_lowercase_char(t.name[i])
    /\ \A k \in 1..Len(t.anchor) :
         /\ is_alphanumeric(t.anchor[k]) \/ t.anchor[k] = "-"
         /\ ~IsUpper(t.anchor[k])
         /\ t.anchor[k] = "-" => /\ k > 1 /\ k < Len(t.anchor)
                                 /\ t.anchor[k + 1] # "-"

\* the text before the first "(" of a name, trimmed
BeforeParen(name) ==
  trim(SubSeq(name, 1,
              (CHOOSE i \in 1..Len(name) :
                 name[i] = "(" /\ \A j \in 1..(i - 1) : name[j] # "(") - 1))

\* C14 (as claimed): a term has a short name exactly when its name holds a
\* "(" and the trimmed text before the first one is non-empty and of less
\* than half the length of the name (2 * len(short) < len(name)); the short
\* name is that text.
C14_ShortNameRule ==
  \A t \in Terms :
    IF /\ \E i \in 1..Len(t.name) : t.name[i] = "("
       /\ BeforeParen(t.name) # <<>>
       /\ 2 * ByteLen(BeforeParen(t.name)) < ByteLen(t.name)
      THEN t.short_name = <<BeforeParen(t.name)>>
      ELSE t.short_name = <<>>

\* the occurrences of t that an alias or the short name matches, not the name
AliasOccurrences(t) == Occurrences(t) \ MatchesInName(t)

\* where the characters of the occurrence stand in the output
VisibleAt(x) ==
  {k \in 1..Len(cells[x.e]) : cells[x.e][k].o \in x.start..(x.end - 1)}

\* the occurrence was made the text of a link
Linked(x) == \A k \in VisibleAt(x) : cells[x.e][k].n >= 1

\* <a href="{glossary_relative_path}#{anchor}"
HrefOpen(t) ==
  Concat(<< <<"<","a"," ","h","r","e","f","=","\"">>,
            glossary_relative_path, <<"#">>, t.anchor, <<"\"">> >>)

\* the places before k where an <a tag opens
OpensBefore(out, k) ==
  {p \in 1..(k - 3) : out[p] = "<" /\ out[p + 1] = "a" /\ out[p + 2] = " "}

\* the tag that opens last before the occurrence has the href of t
PointsTo(x, t) ==
  LET out == result[x.e].text
      k1  == CHOOSE k \in VisibleAt(x) : \A j \in VisibleAt(x) : k <= j
  IN  \E p \in OpensBefore(out, k1) :
        /\ \A q \in OpensBefore(out, k1) : q <= p
        /\ p + Len(HrefOpen(t)) - 1 <= Len(out)
        /\ SubSeq(out, p, p + Len(HrefOpen(t)) - 1) = HrefOpen(t)

\* between > and </a> the output has the characters of the occurrence as
\* they are in the text
VisibleVerbatim(x) ==
  LET out == result[x.e].text
      k1  == CHOOSE k \in VisibleAt(x) : \A j \in VisibleAt(x) : k <= j
      k2  == k1 + (x.end - x.start) - 1
  IN  /\ VisibleAt(x) = k1..k2
      /\ \A k \in k1..k2 : out[k] = events[x.e].text[x.start + (k - k1)]
      /\ k1 > 1 /\ out[k1 - 1] = ">"
      /\ k2 + Len(link_close) <= Len(out)
      /\ SubSeq(out, k2 + 1, k2 + Len(link_close)) = link_close

\* C15 (as claimed): where an alias or the short name of a term matched and
\* was linked, the link has the href of that term's anchor and its text is
\* the matched characters as they stand in the document.
C15_AliasLinksToOwner ==
  EventsDone =>
    \A t \in TermSet : \A x \in AliasOccurrences(t) :
      Linked(x) => PointsTo(x, t) /\ VisibleVerbatim(x)

\* the surface forms of a term
Forms(t) == {searchable_forms(t)[i] : i \in 1..Len(searchable_forms(t))}

\* text[i ..] is the form, character for character
ExactAt(text, i, f) ==
  /\ i + Len(f) - 1 <= Len(text)
  /\ SubSeq(text, i, i + Len(f) - 1) = f

\* text[i ..] is the form up to letter case
FoldedAt(text, i, f) ==
  /\ i + Len(f) - 1 <= Len(text)
  /\ \A k \in 1..Len(f) : to_lowercase_char(text[i + k - 1]) = to_lowercase_char(f[k])

\* the places of the eligible text that hold a form of t, by the configured
\* case rule, whatever stands around them: [e, start, end)
FormSpans(t) ==
  UNION {{[e |-> e, start |-> y[1], end |-> y[1] + Len(y[2])] :
            y \in {z \in (1..Len(events[e].text)) \X Forms(t) :
                     IF config.case_sensitive
                       THEN ExactAt(events[e].text, z[1], z[2])
                       ELSE FoldedAt(events[e].text, z[1], z[2])}} :
         e \in {i \in 1..Len(events) : Eligible(events, i)}}

\* a word character stands right before or right after the span
TouchesWord(x) ==
  \/ x.start > 1 /\ IsWordChar(events[x.e].text[x.start - 1])
  \/ x.end <= Len(events[x.e].text) /\ IsWordChar(events[x.e].text[x.end])

\* the span, and nothing more of the text, is the text of a link: markup
\* stands right before and right after it
LinkedAlone(x) ==
  /\ Linked(x)
  /\ \E k1, k2 \in VisibleAt(x) :
       /\ \A k \in VisibleAt(x) : k1 <= k /\ k <= k2
       /\ k1 > 1 /\ cells[x.e][k1 - 1].o = 0
       /\ k2 < Len(cells[x.e]) /\ cells[x.e][k2 + 1].o = 0

\* C16 (as claimed): a surface form that stands in the eligible text with a
\* word character right before or right after it is never made a link.
C16_WordDelimited ==
  EventsDone =>
    \A t \in TermSet : \A x \in FormSpans(t) : TouchesWord(x) => ~LinkedAlone(x)

\* the places of the eligible text that hold a form of t up to letter case,
\* between two word boundaries
FoldedWords(t) ==
  UNION {{[e |-> e, start |-> y[1], end |-> y[1] + Len(y[2])] :
            y \in {z \in (1..Len(events[e].text)) \X Forms(t) :
                     /\ FoldedAt(events[e].text, z[1], z[2])
                     /\ WordBoundary(events[e].text, z[1])
                     /\ WordBoundary(events[e].text, z[1] + Len(z[2]))}} :
         e \in {i \in 1..Len(events) : Eligible(events, i)}}

\* character o of the text of event e lies in a place that holds a form of
\* some term, character for character
InExactForm(e, o) ==
  \E t \in TermSet : \E f \in Forms(t) :
    \E i \in 1..Len(events[e].text) :
      ExactAt(events[e].text, i, f) /\ o \in i..(i + Len(f) - 1)

\* C17: with case_sensitive = false a place of the eligible text that holds a
\* form of a term up to letter case, between two word boundaries, makes the
\* term linked, and is itself linked when every occurrence is; with
\* case_sensitive = true every linked character of the text lies in a place
\* that holds a form character for character.
C17_CaseRule ==
  EventsDone =>
    /\ ~config.case_sensitive =>
         \A t \in TermSet : \A x \in FoldedWords(t) :
           /\ t.anchor \in linked_terms
           /\ ~config.link_first_only => Linked(x)
    /\ config.case_sensitive =>
         \A e \in 1..Len(cells) : \A k \in 1..Len(cells[e]) :
           (cells[e][k].o > 0 /\ cells[e][k].n >= 1) => InExactForm(e, cells[e][k].o)

\* C17 witness: with case_sensitive = false, a text that is a term's name in
\* another casing, and no form of any term character for character, was
\* linked.
C17_Witness ==
  /\ EventsDone /\ ~config.case_sensitive
  /\ \E t \in TermSet : \E x \in FoldedWords(t) :
       /\ Linked(x)
       /\ \A o \in x.start..(x.end - 1) : ~InExactForm(x.e, o)

\* the number of directories above the file of a chapter path
DirDepth(path) == Cardinality({i \in 1..Len(path) : path[i] = "/"})

\* C18: the relative glossary path of the chapter add_term_links works on is
\* "../" once for every directory above the chapter's file, followed by the
\* rendered glossary path as it is.
C18_RelativePath ==
  phase = "events" =>
    LET n        == DirDepth(book[chapter_idx].path[1])
        rendered == get_glossary_html_path(config.glossary_path)
        rel      == glossary_relative_path
    IN  /\ Len(rel) = 3 * n + Len(rendered)
        /\ \A k \in 1..n :
             rel[3 * k - 2] = "." /\ rel[3 * k - 1] = "." /\ rel[3 * k] = "/"
        /\ SubSeq(rel, 3 * n + 1, Len(rel)) = rendered

\* C18 witness: a chapter two directories deep is being linked, after one at
\* the root and one a directory deep.
C18_Witness ==
  /\ phase = "events"
  /\ DirDepth(book[chapter_idx].path[1]) = 2
  /\ \E c, d \in 1..(chapter_idx - 1) :
       /\ Linkable(c) /\ DirDepth(book[c].path[1]) = 0
       /\ Linkable(d) /\ DirDepth(book[d].path[1]) = 1
  /\ SubSeq(glossary_relative_path, 1, 6) = <<".",".","/",".",".","/">>

\* one character of a definition as it stands in a title attribute
EscapedChar(c) ==
  CASE c = "&"  -> <<"&","a","m","p",";">>
    [] c = "<"  -> <<"&","l","t",";">>
    [] c = ">"  -> <<"&","g","t",";">>
    [] c = "\"" -> <<"&","q","u","o","t",";">>
    [] OTHER    -> <<c>>

\* the tag a link to t opens with: the href of the anchor, the title of the
\* definition when there is one, the class
ExpectedOpen(t) ==
  Concat(<< HrefOpen(t),
            IF t.definition = <<>> THEN <<>>
            ELSE Concat(<< <<" ","t","i","t","l","e","=","\"">>,
                           Concat([i \in 1..Len(t.definition[1]) |->
                                     EscapedChar(t.definition[1][i])]),
                           <<"\"">> >>),
            <<" ","c","l","a","s","s","=","\"">>, config.css_class, <<"\"",">">> >>)

\* C19 (as claimed): every <a tag in the rewritten text is the opening tag
\* of a link to a term: href of the relative glossary path, "#" and the
\* term's anchor, a title of the escaped definition exactly when the term
\* has one, and the configured class.
C19_LinkAttributes ==
  \A e \in 1..Len(result) :
    result[e].type = "Html" =>
      \A p \in OpensBefore(result[e].text, Len(result[e].text)) :
        \E t \in TermSet :
          /\ p + Len(ExpectedOpen(t)) - 1 <= Len(result[e].text)
          /\ SubSeq(result[e].text, p, p + Len(ExpectedOpen(t)) - 1) = ExpectedOpen(t)

\* the End event that closes the Start event i of a stream
MatchingEnd(evs, i) ==
  CHOOSE j \in (i + 1)..Len(evs) :
    /\ evs[j].type = "End" /\ evs[j].tag = evs[i].tag
    /\ Cardinality({k \in (i + 1)..(j - 1) :
                      evs[k].type = "Start" /\ evs[k].tag = evs[i].tag})
         = Cardinality({k \in (i + 1)..(j - 1) :
                          evs[k].type = "End" /\ evs[k].tag = evs[i].tag})
    /\ \A l \in (i + 1)..(j - 1) :
         (evs[l].type = "End" /\ evs[l].tag = evs[i].tag) =>
           Cardinality({k \in (i + 1)..l :
                          evs[k].type = "Start" /\ evs[k].tag = evs[i].tag})
             >= Cardinality({k \in (i + 1)..l :
                               evs[k].type = "End" /\ evs[k].tag = evs[i].tag})

\* the text between the Start event i and its End, trimmed
BlockText(evs, i) ==
  trim(Concat([k \in 1..(MatchingEnd(evs, i) - i - 1) |->
                 IF evs[i + k].type \in {"Text", "Code"} THEN evs[i + k].text
                 ELSE <<>>]))

IsStart(evs, i, tag) == evs[i].type = "Start" /\ evs[i].tag = tag

\* the definition of the title that starts at i: the text of the definition
\* block that comes right after the title, when there is one and it has text
DefinitionAfter(evs, i) ==
  LET j == MatchingEnd(evs, i) + 1
  IN  IF j <= Len(evs) /\ IsStart(evs, j, "DefinitionListDefinition")
           /\ BlockText(evs, j) # <<>>
        THEN <<BlockText(evs, j)>>
        ELSE <<>>

RECURSIVE TitlesFrom(_, _)
\* name and definition of every title with a name, from event i on, in the
\* order of the document
TitlesFrom(evs, i) ==
  IF i > Len(evs) THEN <<>>
  ELSE IF IsStart(evs, i, "DefinitionListTitle") /\ BlockText(evs, i) # <<>>
    THEN <<[name |-> BlockText(evs, i), definition |-> DefinitionAfter(evs, i)]>>
           \o TitlesFrom(evs, i + 1)
    ELSE TitlesFrom(evs, i + 1)

\* the titles of the glossary chapter handed to run
GlossaryTitles ==
  TitlesFrom(find_glossary_content(input_book, config.glossary_path)[1], 1)

\* C20 (as claimed): the terms run takes from the glossary are one for every
\* definition-list title with a non-empty trimmed text, in the order of the
\* document, each with the trimmed text of the definition block that follows
\* its title, or none when no block follows or the text is empty.
C20_TermPerTitle ==
  /\ (phase = "chapters" \/ outcome = "ok") =>
       /\ Len(terms) = Len(GlossaryTitles)
       /\ \A k \in 1..Len(terms) :
            /\ terms[k].name = GlossaryTitles[k].name
            /\ terms[k].definition = GlossaryTitles[k].definition
  /\ outcome = "ok_no_terms" => GlossaryTitles = <<>>

\* the places of the eligible text that hold the full name of t, by the
\* configured case rule, with no word character right before or after
NamePlaces(t) ==
  {x \in UNION {{[e |-> e, start |-> i, end |-> i + Len(t.name)] :
                   i \in {j \in 1..Len(events[e].text) :
                            IF config.case_sensitive
                              THEN ExactAt(events[e].text, j, t.name)
                              ELSE FoldedAt(events[e].text, j, t.name)}} :
                e \in {i \in 1..Len(events) : Eligible(events, i)}} :
     ~TouchesWord(x)}

\* the first character of the place was made the text of a link to the anchor
LinkStartsAt(x, anchor) ==
  \E k \in 1..Len(cells[x.e]) :
    cells[x.e][k].o = x.start /\ cells[x.e][k].n >= 1 /\ cells[x.e][k].a = anchor

\* C21 (as claimed): the surface forms of a term are its name, then its short
\* name, then its aliases, and the terms are as run built them while they are
\* matched; where the full name of a term stands in the eligible text and a
\* link to the term starts there, the text of the link is the full name, not
\* a shorter form that opens it.
C21_NameFirst ==
  /\ \A t \in Terms :
       /\ Len(searchable_forms(t)) >= 1
       /\ searchable_forms(t)[1] = t.name
       /\ searchable_forms(t) = <<t.name>> \o t.short_name \o t.aliases
  /\ phase = "events" => sorted_terms = sort_terms(terms)
  /\ EventsDone =>
       \A t \in TermSet : \A x \in NamePlaces(t) :
         LinkStartsAt(x, t.anchor) => LinkedAlone(x)

\* the tracked Start events before event i of a stream whose End is not
\* before i: the constructs open at i
OpenStarts(evs, i) ==
  {j \in 1..(i - 1) :
     /\ evs[j].type = "Start" /\ evs[j].tag \in TrackedTags
     /\ MatchingEnd(evs, j) >= i}

\* the k-th of a set of positions, in their order
Nth(S, k) == CHOOSE p \in S : Rank(S, p) = k

\* Normal, then the marker of every construct open at i, in the order of
\* their Start events
ExpectedStack(evs, i) ==
  <<"Normal">> \o [k \in 1..Cardinality(OpenStarts(evs, i)) |->
                     ContextOf(evs[Nth(OpenStarts(evs, i), k)].tag)]

\* C22: while process_events is at work the context stack is Normal followed
\* by the marker of every code block, link, image and heading open at the
\* event it is at, in the order they were opened; so it is never empty and
\* holds Normal at the bottom only; the event just emitted, when it is a text
\* event, was rewritten exactly when no such construct was open at it; at the
\* end of the stream the stack is Normal alone.
C22_ContextStack ==
  phase = "events" =>
    /\ context_stack = ExpectedStack(events, event_idx)
    /\ context_stack # <<>>
    /\ \A k \in 1..Len(context_stack) : context_stack[k] = "Normal" <=> k = 1
    /\ (result # <<>> /\ events[Len(result)].type = "Text") =>
         (result[Len(result)].type = "Html" <=> OpenStarts(events, Len(result)) = {})
    /\ EventsDone => context_stack = <<"Normal">>

\* C22 witness: process_events is at a text with an image inside a link open
\* at it, after a heading with a link in it was closed and a text outside
\* every construct was rewritten.
C22_Witness ==
  /\ AtEvent
  /\ events[event_idx].type = "Text"
  /\ context_stack = <<"Normal", "Link", "Image">>
  /\ \E h, l, t \in 1..Len(result) :
       /\ h < l /\ l < t
       /\ IsStart(events, h, "Heading")
       /\ IsStart(events, l, "Link") /\ MatchingEnd(events, l) < MatchingEnd(events, h)
       /\ MatchingEnd(events, h) < t
       /\ events[t].type = "Text" /\ result[t].type = "Html"

\* C23: process_events has emitted one event for every event it is through
\* with, in their order: an Html event for a text outside every tracked
\* construct, and for every other event (start and end tags, inline code,
\* raw HTML, breaks, text inside a code block, link, image or heading) the
\* event itself; the chapter gets these events.
C23_OneEventPerEvent ==
  /\ phase = "events" =>
       /\ Len(result) = event_idx - 1
       /\ \A i \in 1..Len(result) :
            IF Eligible(events, i) THEN result[i].type = "Html"
                                   ELSE result[i] = events[i]
  /\ \A c \in 1..Len(book) : (Visited(c) /\ Linkable(c)) => Rewritten(c)

\* C23 witness: process_events is through a chapter with a break, raw HTML,
\* inline code, tags tracked and not, and text inside a link, in which a text
\* was rewritten to something else.
C23_Witness ==
  /\ EventsDone
  /\ \E b \in 1..Len(events) : events[b].type = "SoftBreak"
  /\ \E h \in 1..Len(events) : events[h].type = "Html"
  /\ \E c \in 1..Len(events) : events[c].type = "Code"
  /\ \E l \in 1..Len(events) : IsStart(events, l, "Link")
  /\ \E m \in 1..Len(events) : IsStart(events, m, "Emphasis")
  /\ \E t \in 1..Len(events) : events[t].type = "Text" /\ ~Eligible(events, t)
  /\ \E x \in 1..Len(events) :
       Eligible(events, x) /\ result[x].text # events[x].text

\* the events of the glossary chapter handed to run
GlossaryEvents == find_glossary_content(input_book, config.glossary_path)[1]

\* the titles of a stream with a name, and those whose text is empty or
\* white space only, by the place of their Start event
NamedTitles(evs) ==
  {i \in 1..Len(evs) : IsStart(evs, i, "DefinitionListTitle") /\ BlockText(evs, i) # <<>>}

BlankTitles(evs) ==
  {i \in 1..Len(evs) : IsStart(evs, i, "DefinitionListTitle") /\ BlockText(evs, i) = <<>>}

\* run has just extracted the terms: it is at the first chapter, or it has
\* returned for want of terms
Extracted == (phase = "chapters" /\ chapter_idx = 1) \/ outcome = "ok_no_terms"

\* C24: of a definition list with a title whose text is empty or white space
\* only, run holds one term for every title with a name and none for the
\* others; every term, those after a dropped title too, has the text of the
\* definition block right after its own title, or none, and so never the
\* text that followed a dropped title.
C24_BlankTitleDropped ==
  (Extracted /\ BlankTitles(GlossaryEvents) # {}) =>
    /\ Len(terms) = Cardinality(NamedTitles(GlossaryEvents))
    /\ \A k \in 1..Len(terms) :
         /\ terms[k].name # <<>>
         /\ terms[k].name = BlockText(GlossaryEvents, Nth(NamedTitles(GlossaryEvents), k))
         /\ terms[k].definition =
              DefinitionAfter(GlossaryEvents, Nth(NamedTitles(GlossaryEvents), k))

\* C24 witness: run holds the one term of a list whose first title is white
\* space followed by a definition with text, and whose second title has a
\* name and no definition.
C24_Witness ==
  /\ Extracted
  /\ Len(terms) = 1
  /\ terms[1].definition = <<>>
  /\ \E b \in BlankTitles(GlossaryEvents) : \E n \in NamedTitles(GlossaryEvents) :
       /\ b < n
       /\ DefinitionAfter(GlossaryEvents, b) # <<>>
       /\ DefinitionAfter(GlossaryEvents, n) = <<>>

\* the Start of the n-th definition block right after the title that starts
\* at i, or 0 when the title has fewer blocks
RECURSIVE DefinitionBlock(_, _, _)
DefinitionBlock(evs, i, n) ==
  LET prev == IF n = 1 THEN i ELSE DefinitionBlock(evs, i, n - 1)
      j    == IF prev = 0 THEN 0 ELSE MatchingEnd(evs, prev) + 1
  IN  IF j > 0 /\ j <= Len(evs) /\ IsStart(evs, j, "DefinitionListDefinition")
        THEN j ELSE 0

\* the titles with a name that two or more definition blocks follow
MultiTitles(evs) == {i \in NamedTitles(evs) : DefinitionBlock(evs, i, 2) # 0}

\* the terms the extractor holds after the first n events of a stream
TermsAfter(evs, n) == parse_loop(ParserInit, SubSeq(evs, 1, n)).terms

\* C25: of a definition list with a title that several definition blocks
\* follow, run holds one term for every title with a name, each with the
\* trimmed text of the first block after its own title (none when that is
\* empty) and nothing of the later blocks of its own or of the title before;
\* the term of such a title is emitted at the End event of its first block,
\* and no term is emitted from there to the next title.
C25_FirstDefinitionOnly ==
  (Extracted /\ MultiTitles(GlossaryEvents) # {}) =>
    /\ Len(terms) = Cardinality(NamedTitles(GlossaryEvents))
    /\ \A k \in 1..Len(terms) :
         LET i == Nth(NamedTitles(GlossaryEvents), k)
         IN  /\ terms[k].name = BlockText(GlossaryEvents, i)
             /\ terms[k].definition =
                  (IF DefinitionBlock(GlossaryEvents, i, 1) # 0
                      /\ BlockText(GlossaryEvents, DefinitionBlock(GlossaryEvents, i, 1)) # <<>>
                     THEN <<BlockText(GlossaryEvents, DefinitionBlock(GlossaryEvents, i, 1))>>
                     ELSE <<>>)
    /\ \A i \in MultiTitles(GlossaryEvents) :
         LET k      == Rank(NamedTitles(GlossaryEvents), i)
             close1 == MatchingEnd(GlossaryEvents, DefinitionBlock(GlossaryEvents, i, 1))
             close2 == MatchingEnd(GlossaryEvents, DefinitionBlock(GlossaryEvents, i, 2))
         IN  /\ Len(TermsAfter(GlossaryEvents, close1 - 1)) = k - 1
             /\ Len(TermsAfter(GlossaryEvents, close1)) = k
             /\ TermsAfter(GlossaryEvents, close1)[k] = terms[k]
             /\ Len(TermsAfter(GlossaryEvents, close2)) = k

\* C25 witness: run holds the two terms of a list whose first title has two
\* definition blocks with text and whose second title has none: the first
\* term has the text of the first block, the second has no definition.
C25_Witness ==
  /\ Extracted
  /\ Len(terms) = 2
  /\ terms[1].definition = <<S_An_API>>
  /\ terms[2].definition = <<>>
  /\ \E i \in MultiTitles(GlossaryEvents) :
       /\ Rank(NamedTitles(GlossaryEvents), i) = 1
       /\ BlockText(GlossaryEvents, DefinitionBlock(GlossaryEvents, i, 2)) = S_API
       /\ DefinitionBlock(GlossaryEvents, Nth(NamedTitles(GlossaryEvents), 2), 1) = 0

\* where an event holds the opening of a link to the anchor of t
OpensIn(ev, t) ==
  {p \in 1..Len(ev.text) :
     /\ p + Len(HrefOpen(t)) - 1 <= Len(ev.text)
     /\ SubSeq(ev.text, p, p + Len(HrefOpen(t)) - 1) = HrefOpen(t)}

\* the links to the anchor of t in the events emitted so far: <<event, place>>
LinksTo(t) ==
  UNION {{<<e, p>> : p \in OpensIn(result[e], t)} :
         e \in {i \in 1..Len(result) : result[i].type = "Html"}}

\* a step of process_events under link_first_only: linked_terms loses no
\* anchor, and the event emitted holds no link to an anchor that was in it
LinkedTermsStep ==
  (phase = "events" /\ phase' = "events" /\ config.link_first_only) =>
    /\ linked_terms \subseteq linked_terms'
    /\ Len(result') = Len(result) + 1
    /\ \A t \in TermSet :
         t.anchor \in linked_terms => OpensIn(result'[Len(result')], t) = {}

\* with link_first_only the events emitted so far hold at most one link to
\* any anchor, and the anchor of every link they hold is in linked_terms
OneLinkPerAnchor ==
  (phase = "events" /\ config.link_first_only) =>
    \A t \in TermSet :
      /\ Cardinality(LinksTo(t)) <= 1
      /\ LinksTo(t) # {} => t.anchor \in linked_terms

\* C26: with link_first_only = true, at every point of a document the output
\* holds at most one link per anchor, also when several terms have the
\* anchor; within the document linked_terms only grows, and no event emitted
\* after an anchor was put in it holds a link to that anchor.
C26_OneLinkPerAnchor == []OneLinkPerAnchor /\ [][LinkedTermsStep]_vars

\* C26 witness: under link_first_only a chapter is through process_events in
\* which two terms have one anchor and their forms stand in two text events,
\* three times in all, and the output holds one link to the anchor.
C26_Witness ==
  /\ EventsDone /\ config.link_first_only
  /\ \E t, u \in TermSet :
       /\ t # u /\ t.anchor = u.anchor
       /\ Cardinality(LinksTo(t)) = 1
       /\ Cardinality(Occurrences(t)) >= 3
       /\ \E x, y \in Occurrences(t) : x.e # y.e

\* the glossary chapter of the book handed to run is found and yields no term
NoTermsFound == extract_terms(input_book, config) = << <<>> >>

\* no chapter was changed, run went to no chapter and rewrote no event, and
\* if it has returned it returned success
NothingDone ==
  /\ book = input_book
  /\ phase \in {"start", "returned"}
  /\ terms = <<>> /\ error_alias = <<>>
  /\ events = <<>> /\ result = <<>> /\ linked_terms = {}
  /\ phase = "returned" => outcome = "ok_no_terms"

\* C27: when the glossary chapter is found and yields no term, no chapter is
\* ever changed, run goes to no chapter and rewrites no event, and it returns
\* success, never the alias error, whatever aliases are configured (in other
\* words: at every point either nothing was done, or the glossary is not one
\* that is found and yields no term).
C27_NoTermsNoChange == NothingDone \/ ~NoTermsFound

\* C27 witness: run has returned success for a book whose glossary has no
\* definition list, with aliases configured and a chapter with eligible text
\* that is not skipped.
C27_Witness ==
  /\ NoTermsFound
  /\ phase = "returned" /\ outcome = "ok_no_terms"
  /\ config.aliases # <<>>
  /\ \E c \in 1..Len(book) :
       /\ Linkable(c)
       /\ \E i \in 1..Len(book[c].content) : Eligible(book[c].content, i)

\* an <a tag opens, the closing tag stands, at place k of a string
OpenAt(out, k) ==
  k + 2 <= Len(out) /\ out[k] = "<" /\ out[k + 1] = "a" /\ out[k + 2] = " "

CloseAt(out, k) ==
  k + Len(link_close) - 1 <= Len(out)
    /\ SubSeq(out, k, k + Len(link_close) - 1) = link_close

\* the first place from k on where an <a tag opens or the closing tag
\* stands, or 0
NextTag(out, k) ==
  LET tags == {p \in k..Len(out) : OpenAt(out, p) \/ CloseAt(out, p)}
  IN  IF tags = {} THEN 0 ELSE CHOOSE p \in tags : \A q \in tags : p <= q

RECURSIVE OutsideLinks(_, _, _)
RECURSIVE OutsideUpTo(_, _, _, _)
\* the characters of a string from place k on that stand in no link
\* fragment, in their order (depth: the fragments open at k)
OutsideLinks(out, k, depth) == OutsideUpTo(out, k, depth, NextTag(out, k))

\* the same, p being the next tag from k on
OutsideUpTo(out, k, depth, p) ==
  IF p = 0 THEN (IF depth = 0 THEN SubSeq(out, k, Len(out)) ELSE <<>>)
  ELSE (IF depth = 0 THEN SubSeq(out, k, p - 1) ELSE <<>>)
         \o (IF OpenAt(out, p)
               THEN OutsideLinks(out, p + 1, depth + 1)
               ELSE OutsideLinks(out, p + Len(link_close), depth - 1))

\* the characters of the text of event e that were made the text of no link,
\* in their order
RECURSIVE Unlinked(_, _)
Unlinked(e, o) ==
  IF o > Len(events[e].text) THEN <<>>
  ELSE (IF \E k \in 1..Len(cells[e]) : cells[e][k].o = o /\ cells[e][k].n >= 1
          THEN <<>> ELSE <<events[e].text[o]>>)
         \o Unlinked(e, o + 1)

\* no form of any term matches in the text of event e
NoTermMatches(e) ==
  \A t \in TermSet :
    regex_find(build_term_regex(t, config.case_sensitive), events[e].text) = <<>>

\* C28: every text event outside the tracked constructs is emitted as an Html
\* event; when no term matches in it the content is the text as it was, and
\* in every case the content outside the link fragments is the text that was
\* made the text of no link, as it was and in its order.
C28_TextOutsideLinksKept ==
  phase = "events" =>
    \A e \in 1..Len(result) :
      Eligible(events, e) =>
        /\ result[e].type = "Html"
        /\ NoTermMatches(e) => result[e].text = events[e].text
        /\ OutsideLinks(result[e].text, 1, 0) = Unlinked(e, 1)

\* C28 witness: process_events is through a chapter with a text no term
\* matches in, and a text with a link and, after the link, text as it was.
C28_Witness ==
  /\ EventsDone
  /\ \E e, f \in 1..Len(events) :
       /\ Eligible(events, e) /\ NoTermMatches(e)
       /\ events[e].text # <<>>
       /\ Eligible(events, f) /\ ~NoTermMatches(f)
       /\ result[f].text # events[f].text
       /\ OutsideLinks(result[f].text, 1, 0) # <<>>
       /\ OutsideLinks(result[f].text, 1, 0) # events[f].text

====
